---- MODULE Spec2Model ----
(***************************************************************************)
(* Model of agelapse_desktop/src/video_compile.py: compile_video launches  *)
(* run_ffmpeg on a background thread; run_ffmpeg writes a concat manifest, *)
(* trims the audio, assembles a silent video and muxes the two.            *)
(*                                                                         *)
(* Times are in tenths of a second (5 s = 50, 3.3 s = 33).                 *)
(***************************************************************************)
EXTENDS Integers, Sequences, FiniteSets, TLC

\* ---------------------------------------------------------------- bounds
MaxFrames == 3
MaxAudio == 12
MaxWrites == 4
PipeCapacity == 2

\* ------------------------------------------------------ program constants
HoldDuration == 50
LeadIn == 33

\* Two concurrent compile_video calls.
Jobs == {1, 2}

\* Frame rates for which 1/framerate is a whole number of tenths.
Framerates == {1, 2}

\* ------------------------------------------------------------ file system
OutDirs == {"d1", "d2"}
OutPaths == {"d1/a.mp4", "d1/b.mp4", "d2/a.mp4"}

dirname(p) == IF p \in {"d1/a.mp4", "d1/b.mp4"} THEN "d1" ELSE "d2"

TempOutput(output_video) ==
    IF dirname(output_video) = "d1" THEN "d1/temp_output.mp4" ELSE "d2/temp_output.mp4"

TempAudio(output_video) ==
    IF dirname(output_video) = "d1" THEN "d1/temp_audio.mp3" ELSE "d2/temp_audio.mp3"

\* tempfile.NamedTemporaryFile(delete=False, suffix=".txt"): a fresh name per call.
NamedTemporaryFile(j) == IF j = 1 THEN "tmp/list1.txt" ELSE "tmp/list2.txt"

None == "None"

ListPaths == {NamedTemporaryFile(j) : j \in Jobs}
Paths == OutPaths \cup {TempOutput(p) : p \in OutPaths} \cup {TempAudio(p) : p \in OutPaths} \cup ListPaths

\* A file is absent, or was last written by job `by`, completely or partially;
\* `data` is the manifest's (file, duration) entries, empty for media files.
NoFile == [by |-> 0, state |-> "absent", data |-> <<>>]
File(j, st, d) == [by |-> j, state |-> st, data |-> d]
exists(f) == f.state # "absent"

\* ------------------------------------------------------- image directory
\* name order is `ord`; a leading dot hides a file from glob('*.png') but not
\* from os.listdir + endswith('.png').  `exif` is the state of the EXIF
\* DateTimeOriginal tag: "ok" (parses, value `date`), "absent", or "bad"
\* (present, not in the format %Y:%m:%d %H:%M:%S); `mtime` is the file's
\* modification time.  Dates are year * 10 + a serial number.
ImageFiles == {
    [name |-> "a.png",   ord |-> 2, hidden |-> FALSE, exif |-> "ok",     date |-> 20211, mtime |-> 20231],
    [name |-> "b.png",   ord |-> 3, hidden |-> FALSE, exif |-> "absent", date |-> 0,     mtime |-> 20201],
    [name |-> ".c.png",  ord |-> 1, hidden |-> TRUE,  exif |-> "ok",     date |-> 20202, mtime |-> 20232],
    [name |-> "._a.png", ord |-> 0, hidden |-> TRUE,  exif |-> "absent", date |-> 0,     mtime |-> 20221],
    [name |-> "d.png",   ord |-> 4, hidden |-> FALSE, exif |-> "bad",    date |-> 0,     mtime |-> 20222] }

year(date) == date \div 10

\* get_image_creation_date: the parsed tag, the modification time when the
\* tag is absent, and ValueError out of datetime.strptime when the tag does
\* not parse.
get_image_creation_date(f) ==
    IF f.exif = "ok" THEN [raised |-> FALSE, date |-> f.date]
    ELSE IF f.exif = "absent" THEN [raised |-> FALSE, date |-> f.mtime]
    ELSE [raised |-> TRUE, date |-> 0]

\* Some listed image makes get_image_creation_date raise.
DateRaises(files) == \E f \in files : get_image_creation_date(f).raised

RECURSIVE SortBy(_, _)
SortBy(S, key) ==
    IF S = {} THEN <<>>
    ELSE LET m == CHOOSE x \in S : \A y \in S : key[x] <= key[y]
         IN <<m>> \o SortBy(S \ {m}, key)

\* Sort keys: image_files.sort(key=lambda x: x[1]) and sorted(glob(...)).
ByDate == [f \in ImageFiles |-> get_image_creation_date(f).date]
ByName == [f \in ImageFiles |-> f.ord]

\* os.listdir(image_dir) filtered by img.endswith('.png')
listdir_png(files) == files

\* glob.glob(os.path.join(image_dir, '*.png'))
glob_png(files) == {f \in files : ~f.hidden}

Names(files) == {f.name : f \in files}

\* get_image_files: sorted glob; raising on an empty result is the caller's
\* `GlobEmpty` branch.
get_image_files(files) == SortBy(glob_png(files), ByName)
GlobEmpty(files) == glob_png(files) = {}

\* get_video_length: len(image_files) / framerate, in tenths of a second.
get_video_length(files, framerate) == (Len(get_image_files(files)) * 10) \div framerate

\* ------------------------------------------------------ audio synchronizer
Max(a, b) == IF a >= b THEN a ELSE b

\* math.floor(max(0, audio_duration - video_length)) - 3.3
StartTime(audio_duration, video_length) ==
    (Max(0, audio_duration - video_length) \div 10) * 10 - LeadIn

\* The -ss / -t arguments of trim_command.
TrimCommand(audio_duration, frame_length) ==
    LET video_length == frame_length + HoldDuration
    IN [ss |-> StartTime(audio_duration, video_length), t |-> video_length]

\* ------------------------------------------------------------- manifest
\* Variant: the last frame gets the per-frame duration, not the hold.
ManifestEntries_NoHold(files, framerate) ==
    LET image_files == SortBy(listdir_png(files), ByDate)
    IN [i \in 1..Len(image_files) |->
          [file |-> image_files[i].name, duration |-> 10 \div framerate]]

\* create_file_list's write loop over the date-sorted images.
ManifestEntries(files, framerate) ==
    LET image_files == SortBy(listdir_png(files), ByDate)
        time_per_frame == 10 \div framerate
    IN [i \in 1..Len(image_files) |->
          [file |-> image_files[i].name,
           duration |-> IF i = Len(image_files) THEN HoldDuration ELSE time_per_frame]]

\* ------------------------------------------------------- overlay program
\* create_drawtext_filter(year, start, end=None): `if end` picks the form.
create_drawtext_filter(yr, start, end) ==
    IF end # 0 THEN [year |-> yr, kind |-> "between", a |-> start, b |-> end]
    ELSE [year |-> yr, kind |-> "gte", a |-> start, b |-> 0]

\* Variant: the loop closes a segment at every year change, the first
\* included (no `current_year is not None` test).
RECURSIVE OverlayLoop_NoNoneTest(_, _, _, _, _)
OverlayLoop_NoNoneTest(years, i, current_year, start_frame, filter_parts) ==
    IF i >= Len(years)
    THEN Append(filter_parts, create_drawtext_filter(current_year, start_frame, 0))
    ELSE LET yr == years[i + 1]
         IN IF yr # current_year
            THEN OverlayLoop_NoNoneTest(years, i + 1, yr, i,
                   Append(filter_parts, create_drawtext_filter(current_year, start_frame, i)))
            ELSE OverlayLoop_NoNoneTest(years, i + 1, current_year, start_frame, filter_parts)

\* The for loop of generate_year_overlay_filter over years[i..], 0-based i,
\* with current_year = 0 standing for None.
RECURSIVE OverlayLoop(_, _, _, _, _)
OverlayLoop(years, i, current_year, start_frame, filter_parts) ==
    IF i >= Len(years)
    THEN IF current_year # 0
         THEN Append(filter_parts, create_drawtext_filter(current_year, start_frame, 0))
         ELSE filter_parts
    ELSE LET yr == years[i + 1]
         IN IF yr # current_year
            THEN OverlayLoop(years, i + 1, yr, i,
                   IF current_year # 0
                   THEN Append(filter_parts, create_drawtext_filter(current_year, start_frame, i))
                   ELSE filter_parts)
            ELSE OverlayLoop(years, i + 1, current_year, start_frame, filter_parts)

SortedYears(years) ==
    LET idx == 1..Len(years)
        key == [i \in idx |-> years[i] * (Len(years) + 1) + i]
        s == SortBy(idx, key)
    IN [k \in 1..Len(years) |-> years[s[k]]]

\* generate_year_overlay_filter on the years of the listed images.
YearOverlay(years) == OverlayLoop(SortedYears(years), 0, 0, 0, <<>>)

generate_year_overlay_filter(files) ==
    LET image_files == get_image_files(files)
    IN YearOverlay([i \in 1..Len(image_files) |->
                       year(get_image_creation_date(image_files[i]).date)])

\* enable='between(n,a,b)' / enable='gte(n,a)' evaluated at frame n.
SegmentEnabled(seg, n) ==
    IF seg.kind = "between" THEN seg.a <= n /\ n <= seg.b ELSE n >= seg.a

\* ------------------------------------------------------------------ state
VARIABLES
    image_dir_exists,   \* os.path.exists(stabilized_img_dir)
    dir_files,          \* the files of the image directory
    audio_exists,       \* os.path.exists(audio_file)
    audio_duration,     \* MP3(audio_file).info.length, tenths of a second
    out_dir,            \* per output directory: "present", "absent", "blocked"
    fs,                 \* content of every path the jobs write
    caller,             \* position of each compile_video call
    output_video,       \* output_video_path of each call
    framerate,          \* framerate of each call
    retval,             \* value returned by each call
    made_dirs,          \* directories created by each call's os.makedirs
    thread,             \* position of each background thread in run_ffmpeg
    list_filename,      \* run_ffmpeg's list_filename
    trim_command,       \* the -ss / -t arguments handed to the trim stage
    year_overlay,       \* the segments of year_overlay_filter
    started,            \* encoder stages started by each job, in order
    running,            \* encoder processes of each job that have not exited
    exit_status,        \* per job and stage: "none", "ok", "fail"
    mux_read,           \* the temporary files the mux process opened
    listed,             \* the file names get_video_length and the overlay saw
    years_in,           \* SpecPure: capture years of the listed images
    rate_in,            \* SpecPure: framerate
    audio_in,           \* SpecPure: audio duration, tenths of a second
    image_in,           \* SpecPure: the image handed to get_image_creation_date
    pipe,               \* SpecPipe: one encoder process and its read loop
    pure_pc,            \* SpecPure: the functions applied so far
    pure_out            \* SpecPure: their results

job_vars == <<caller, output_video, framerate, retval, made_dirs, thread,
              list_filename, trim_command, year_overlay, started, running,
              exit_status, mux_read, listed>>
env_vars == <<image_dir_exists, dir_files, audio_exists, audio_duration>>
pure_vars == <<years_in, rate_in, audio_in, image_in, pipe, pure_pc, pure_out>>
vars == <<env_vars, out_dir, fs, job_vars, listed, pure_vars>>

StageNames == {"trim", "assembly", "mux"}
Terminal == {"done", "raised"}
NoCommand == [ss |-> 0, t |-> 0]
NoRead == [video |-> NoFile, audio |-> NoFile]
NoListing == [length |-> {}, overlay |-> {}]
NoDate == [raised |-> FALSE, date |-> 0]

\* An encoder process started with stdout=PIPE, stderr=PIPE: `script` is what
\* it will write, in order ("stdout" or "stderr", one chunk or line each),
\* `pos` its next write, `out_buf` the chunks waiting in the stdout pipe,
\* `err_buf` the lines waiting in the stderr pipe (by their position in the
\* script), `printed` the lines the read loop has printed.
Popen(script) ==
    [script |-> script, pos |-> 1, out_buf |-> 0, err_buf |-> <<>>,
     exited |-> FALSE, printed |-> <<>>, loop |-> "reading"]
NoPure == [trim |-> NoCommand, overlay |-> <<>>, resolve |-> NoDate]

\* Audio durations of the pipeline runs: shorter and longer than any video.
AudioDurations == {30, 400}

InitJobs ==
    /\ fs = [p \in Paths |-> NoFile]
    /\ caller = [j \in Jobs |-> "idle"]
    /\ output_video = [j \in Jobs |-> "d1/a.mp4"]
    /\ framerate = [j \in Jobs |-> 1]
    /\ retval = [j \in Jobs |-> None]
    /\ made_dirs = [j \in Jobs |-> {}]
    /\ thread = [j \in Jobs |-> "none"]
    /\ list_filename = [j \in Jobs |-> None]
    /\ trim_command = [j \in Jobs |-> NoCommand]
    /\ year_overlay = [j \in Jobs |-> <<>>]
    /\ started = [j \in Jobs |-> <<>>]
    /\ running = [j \in Jobs |-> {}]
    /\ exit_status = [j \in Jobs |-> [s \in StageNames |-> "none"]]
    /\ mux_read = [j \in Jobs |-> NoRead]
    /\ listed = [j \in Jobs |-> NoListing]

InitPureIdle ==
    /\ years_in = <<>>
    /\ rate_in = 1
    /\ audio_in = 0
    /\ image_in = CHOOSE f \in ImageFiles : f.name = "a.png"
    /\ pipe = Popen(<<>>)
    /\ pure_pc = {}
    /\ pure_out = NoPure

Init ==
    /\ image_dir_exists \in BOOLEAN
    /\ dir_files \in SUBSET ImageFiles
    /\ image_dir_exists = FALSE => dir_files = {}
    /\ audio_exists \in BOOLEAN
    /\ audio_duration \in AudioDurations
    /\ audio_exists = FALSE => audio_duration = 30
    /\ out_dir \in [OutDirs -> {"present", "absent", "blocked"}]
    /\ InitJobs
    /\ InitPureIdle

\* ---------------------------------------------------------- compile_video
\* Variant: the audio check is missing.
InputsExist_DirOnly == image_dir_exists

\* The two existence checks at the head of compile_video.
InputsExist == image_dir_exists /\ audio_exists

\* Entry and input validation; a failed check raises FileNotFoundError.
Validate(j, out, fr) ==
    /\ caller[j] = "idle"
    /\ output_video' = [output_video EXCEPT ![j] = out]
    /\ framerate' = [framerate EXCEPT ![j] = fr]
    /\ caller' = [caller EXCEPT ![j] = IF InputsExist THEN "makedirs" ELSE "except"]
    /\ UNCHANGED <<env_vars, out_dir, fs, retval, made_dirs, thread, list_filename,
                   trim_command, year_overlay, started, running, exit_status,
                   mux_read, listed, pure_vars>>

\* output_dir = dirname(output_video_path); os.makedirs when it is absent.
\* "blocked" is a directory os.makedirs cannot create (empty dirname,
\* permission denied): the exception is caught by compile_video.
MakeOutputDir(j) ==
    /\ caller[j] = "makedirs"
    /\ LET output_dir == dirname(output_video[j])
       IN \/ /\ out_dir[output_dir] = "present"
             /\ caller' = [caller EXCEPT ![j] = "start"]
             /\ UNCHANGED <<out_dir, made_dirs>>
          \/ /\ out_dir[output_dir] = "absent"
             /\ out_dir' = [out_dir EXCEPT ![output_dir] = "present"]
             /\ made_dirs' = [made_dirs EXCEPT ![j] = @ \cup {output_dir}]
             /\ caller' = [caller EXCEPT ![j] = "start"]
          \/ /\ out_dir[output_dir] = "blocked"
             /\ caller' = [caller EXCEPT ![j] = "except"]
             /\ UNCHANGED <<out_dir, made_dirs>>
    /\ UNCHANGED <<env_vars, fs, output_video, framerate, retval, thread,
                   list_filename, trim_command, year_overlay, started, running,
                   exit_status, mux_read, listed, pure_vars>>

\* thread = threading.Thread(target=target); thread.start()
StartThread(j) ==
    /\ caller[j] = "start"
    /\ caller' = [caller EXCEPT ![j] = "started"]
    /\ thread' = [thread EXCEPT ![j] = "create_file_list"]
    /\ UNCHANGED <<env_vars, out_dir, fs, output_video, framerate, retval,
                   made_dirs, list_filename, trim_command, year_overlay, started,
                   running, exit_status, mux_read, listed, pure_vars>>

\* Variant: compile_video joins the thread before it returns.
ReturnReady_Join(j) == thread[j] \in {"done", "raised"}

\* What compile_video waits for between thread.start() and return: nothing.
ReturnReady(j) == TRUE

\* return output_video_path
Return(j) ==
    /\ caller[j] = "started"
    /\ ReturnReady(j)
    /\ caller' = [caller EXCEPT ![j] = "returned"]
    /\ retval' = [retval EXCEPT ![j] = output_video[j]]
    /\ UNCHANGED <<env_vars, out_dir, fs, output_video, framerate, made_dirs,
                   thread, list_filename, trim_command, year_overlay, started,
                   running, exit_status, mux_read, listed, pure_vars>>

\* The except clauses: print the error, return "".
ReturnEmpty(j) ==
    /\ caller[j] = "except"
    /\ caller' = [caller EXCEPT ![j] = "returned"]
    /\ retval' = [retval EXCEPT ![j] = ""]
    /\ UNCHANGED <<env_vars, out_dir, fs, output_video, framerate, made_dirs,
                   thread, list_filename, trim_command, year_overlay, started,
                   running, exit_status, mux_read, listed, pure_vars>>

\* ------------------------------------------------------------- run_ffmpeg
\* Launching and reaping an encoder process.
Launch(j, stage) ==
    /\ started' = [started EXCEPT ![j] = Append(@, stage)]
    /\ running' = [running EXCEPT ![j] = @ \cup {stage}]

Exit(j, stage, status) ==
    /\ running' = [running EXCEPT ![j] = @ \ {stage}]
    /\ exit_status' = [exit_status EXCEPT ![j][stage] = status]

\* Variant: the read loop ends at the first empty line, without poll()/wait().
ProcessExited_NoWait(j, stage) == TRUE

\* subprocess.run(...) returning, and the read loop's
\* `line == '' and process.poll() is not None` followed by process.wait().
ProcessExited(j, stage) == stage \notin running[j]

\* list_filename = create_file_list(image_dir, framerate).  Any exception is
\* caught inside: raised before the temporary file is made (listing the
\* directory, resolving a date) it leaves list_filename None, raised while
\* writing it leaves a partial manifest.
CreateFileList(j) ==
    /\ thread[j] = "create_file_list"
    /\ LET entries == ManifestEntries(dir_files, framerate[j])
           name == NamedTemporaryFile(j)
       IN \/ /\ image_dir_exists
             /\ ~DateRaises(listdir_png(dir_files))
             /\ list_filename' = [list_filename EXCEPT ![j] = name]
             /\ fs' = [fs EXCEPT ![name] = File(j, "complete", entries)]
          \/ /\ UNCHANGED <<list_filename, fs>>
          \/ /\ image_dir_exists
             /\ ~DateRaises(listdir_png(dir_files))
             /\ \E k \in 0..Max(0, Len(entries) - 1) :
                  fs' = [fs EXCEPT ![name] = File(j, "partial", SubSeq(entries, 1, k))]
             /\ list_filename' = [list_filename EXCEPT ![j] = name]
    /\ thread' = [thread EXCEPT ![j] = "plan"]
    /\ UNCHANGED <<env_vars, out_dir, caller, output_video, framerate, retval,
                   made_dirs, trim_command, year_overlay, started, running,
                   exit_status, mux_read, listed, pure_vars>>

\* From the temporary names to the start of the trim process: MP3() raises
\* without the audio file, get_video_length raises FileNotFoundError when the
\* glob is empty.
StartTrim(j) ==
    /\ thread[j] = "plan"
    /\ IF audio_exists /\ image_dir_exists /\ ~GlobEmpty(dir_files)
       THEN /\ trim_command' = [trim_command EXCEPT ![j] =
                  TrimCommand(audio_duration, get_video_length(dir_files, framerate[j]))]
            /\ listed' = [listed EXCEPT ![j].length = Names(glob_png(dir_files))]
            /\ Launch(j, "trim")
            /\ thread' = [thread EXCEPT ![j] = "trim_wait"]
       ELSE /\ thread' = [thread EXCEPT ![j] = "raised"]
            /\ UNCHANGED <<trim_command, started, running, listed>>
    /\ UNCHANGED <<env_vars, out_dir, fs, caller, output_video, framerate, retval,
                   made_dirs, list_filename, year_overlay, exit_status, mux_read,
                   pure_vars>>

\* The trim process exits: temp_audio is written on success, and may be left
\* half-written on failure.
TrimExit(j) ==
    /\ "trim" \in running[j]
    /\ LET temp_audio == TempAudio(output_video[j])
       IN \/ /\ Exit(j, "trim", "ok")
             /\ fs' = [fs EXCEPT ![temp_audio] = File(j, "complete", <<>>)]
          \/ /\ Exit(j, "trim", "fail")
             /\ \/ fs' = [fs EXCEPT ![temp_audio] = File(j, "partial", <<>>)]
                \/ UNCHANGED fs
    /\ UNCHANGED <<env_vars, out_dir, caller, output_video, framerate, retval,
                   made_dirs, thread, list_filename, trim_command, year_overlay,
                   started, mux_read, listed, pure_vars>>

\* subprocess.run(trim_command, check=True) returns or raises; then the
\* overlay filter is generated (FileNotFoundError on an empty glob,
\* ValueError on a date that does not parse) and the assembly process is
\* started.  Popen raises TypeError when list_filename is None.
StartAssembly(j) ==
    /\ thread[j] = "trim_wait"
    /\ ProcessExited(j, "trim")
    /\ LET overlay_ok == /\ exit_status[j]["trim"] = "ok"
                         /\ ~GlobEmpty(dir_files)
                         /\ ~DateRaises(glob_png(dir_files))
       IN /\ IF overlay_ok
             THEN /\ year_overlay' = [year_overlay EXCEPT ![j] =
                        generate_year_overlay_filter(dir_files)]
                  /\ listed' = [listed EXCEPT ![j].overlay = Names(glob_png(dir_files))]
             ELSE UNCHANGED <<year_overlay, listed>>
          /\ IF overlay_ok /\ list_filename[j] # None
             THEN /\ Launch(j, "assembly")
                  /\ thread' = [thread EXCEPT ![j] = "assembly_wait"]
             ELSE /\ thread' = [thread EXCEPT ![j] = "raised"]
                  /\ UNCHANGED <<started, running>>
    /\ UNCHANGED <<env_vars, out_dir, fs, caller, output_video, framerate, retval,
                   made_dirs, list_filename, trim_command, exit_status, mux_read,
                   pure_vars>>

\* The assembly process exits: it can succeed only on a manifest that lists
\* a frame; temp_output is written on success and may be left half-written
\* on failure.
AssemblyExit(j) ==
    /\ "assembly" \in running[j]
    /\ LET temp_output == TempOutput(output_video[j])
       IN \/ /\ fs[list_filename[j]].data # <<>>
             /\ Exit(j, "assembly", "ok")
             /\ fs' = [fs EXCEPT ![temp_output] = File(j, "complete", <<>>)]
          \/ /\ Exit(j, "assembly", "fail")
             /\ \/ fs' = [fs EXCEPT ![temp_output] = File(j, "partial", <<>>)]
                \/ UNCHANGED fs
    /\ UNCHANGED <<env_vars, out_dir, caller, output_video, framerate, retval,
                   made_dirs, thread, list_filename, trim_command, year_overlay,
                   started, mux_read, listed, pure_vars>>

\* The first read loop ends and process.wait() returns; the exit status is
\* not looked at; the mux process is started and opens its two inputs.
StartMux(j) ==
    /\ thread[j] = "assembly_wait"
    /\ ProcessExited(j, "assembly")
    /\ Launch(j, "mux")
    /\ mux_read' = [mux_read EXCEPT ![j] =
          [video |-> fs[TempOutput(output_video[j])],
           audio |-> fs[TempAudio(output_video[j])]]]
    /\ thread' = [thread EXCEPT ![j] = "mux_wait"]
    /\ UNCHANGED <<env_vars, out_dir, fs, caller, output_video, framerate, retval,
                   made_dirs, list_filename, trim_command, year_overlay,
                   exit_status, listed, pure_vars>>

\* The mux process exits: it can succeed only if both inputs existed when it
\* opened them; output_video is written on success and may be left
\* half-written on failure.
MuxExit(j) ==
    /\ "mux" \in running[j]
    /\ LET inputs == exists(mux_read[j].video) /\ exists(mux_read[j].audio)
       IN \/ /\ inputs
             /\ Exit(j, "mux", "ok")
             /\ fs' = [fs EXCEPT ![output_video[j]] = File(j, "complete", <<>>)]
          \/ /\ Exit(j, "mux", "fail")
             /\ \/ /\ inputs
                   /\ fs' = [fs EXCEPT ![output_video[j]] = File(j, "partial", <<>>)]
                \/ UNCHANGED fs
    /\ UNCHANGED <<env_vars, out_dir, caller, output_video, framerate, retval,
                   made_dirs, thread, list_filename, trim_command, year_overlay,
                   started, mux_read, listed, pure_vars>>

\* "Remove temporary files": list_filename and temp_output, when they exist.
RemoveTemporaryFiles(j, files) ==
    [p \in Paths |->
        IF p \in {list_filename[j], TempOutput(output_video[j])} THEN NoFile ELSE files[p]]

\* The second read loop ends, process.wait() returns, the temporary files
\* are removed and run_ffmpeg returns.
Cleanup(j) ==
    /\ thread[j] = "mux_wait"
    /\ ProcessExited(j, "mux")
    /\ fs' = RemoveTemporaryFiles(j, fs)
    /\ thread' = [thread EXCEPT ![j] = "done"]
    /\ UNCHANGED <<env_vars, out_dir, caller, output_video, framerate, retval,
                   made_dirs, list_filename, trim_command, year_overlay, started,
                   running, exit_status, mux_read, listed, pure_vars>>

\* One compile_video call, every environment.
Next ==
    \E j \in {1} :
        \/ \E out \in OutPaths, fr \in Framerates : Validate(j, out, fr)
        \/ MakeOutputDir(j)
        \/ StartThread(j)
        \/ Return(j)
        \/ ReturnEmpty(j)
        \/ CreateFileList(j)
        \/ StartTrim(j)
        \/ TrimExit(j)
        \/ StartAssembly(j)
        \/ AssemblyExit(j)
        \/ StartMux(j)
        \/ MuxExit(j)
        \/ Cleanup(j)

Spec == Init /\ [][Next]_vars

\* Two concurrent compile_video calls on inputs that pass validation.
InitPair ==
    /\ image_dir_exists = TRUE
    /\ dir_files = {f \in ImageFiles : ~f.hidden /\ f.exif # "bad"}
    /\ audio_exists = TRUE
    /\ audio_duration = 400
    /\ out_dir = [d \in OutDirs |-> "present"]
    /\ InitJobs
    /\ InitPureIdle

NextPair ==
    \E j \in Jobs :
        \/ \E out \in OutPaths : Validate(j, out, 1)
        \/ MakeOutputDir(j)
        \/ StartThread(j)
        \/ Return(j)
        \/ CreateFileList(j)
        \/ StartTrim(j)
        \/ TrimExit(j)
        \/ StartAssembly(j)
        \/ AssemblyExit(j)
        \/ StartMux(j)
        \/ MuxExit(j)
        \/ Cleanup(j)

SpecPair == InitPair /\ [][NextPair]_vars

\* Another process adds a file to the image directory or removes one while
\* the job runs; each listing reads the directory as it is at that moment.
DirChange(f) ==
    /\ image_dir_exists
    /\ thread[1] \notin {"none", "done", "raised"}
    /\ dir_files' = IF f \in dir_files THEN dir_files \ {f} ELSE dir_files \cup {f}
    /\ UNCHANGED <<image_dir_exists, audio_exists, audio_duration, out_dir, fs,
                   job_vars, pure_vars>>

\* One compile_video call on inputs that pass validation, over a directory
\* that changes underneath it.
InitDir ==
    /\ image_dir_exists = TRUE
    /\ dir_files \in SUBSET ImageFiles
    /\ audio_exists = TRUE
    /\ audio_duration = 400
    /\ out_dir = [d \in OutDirs |-> "present"]
    /\ InitJobs
    /\ InitPureIdle

NextDir ==
    \/ \E f \in ImageFiles : DirChange(f)
    \/ \E j \in {1} :
        \/ Validate(j, "d1/a.mp4", 1)
        \/ MakeOutputDir(j)
        \/ StartThread(j)
        \/ Return(j)
        \/ CreateFileList(j)
        \/ StartTrim(j)
        \/ TrimExit(j)
        \/ StartAssembly(j)
        \/ AssemblyExit(j)
        \/ StartMux(j)
        \/ MuxExit(j)
        \/ Cleanup(j)

SpecDir == InitDir /\ [][NextDir]_vars

\* ------------------------------------------- the pure functions on their own
Years == {2020, 2021, 2022}

\* Timelines of 1..MaxFrames frames, as the capture years in listing order.
YearSeqs == UNION {[1..n -> Years] : n \in 1..MaxFrames}

InitPure ==
    /\ years_in \in YearSeqs
    /\ rate_in \in Framerates
    /\ audio_in \in 0..(MaxAudio * 10)
    /\ image_in \in ImageFiles
    /\ pipe = Popen(<<>>)
    /\ pure_pc = {}
    /\ pure_out = NoPure
    /\ image_dir_exists = TRUE
    /\ dir_files = {}
    /\ audio_exists = TRUE
    /\ audio_duration = 0
    /\ out_dir = [d \in OutDirs |-> "present"]
    /\ InitJobs

\* The trim window run_ffmpeg computes for len(years_in) images.
ApplyTrim ==
    /\ "trim" \notin pure_pc
    /\ pure_pc' = pure_pc \cup {"trim"}
    /\ pure_out' = [pure_out EXCEPT !.trim =
          TrimCommand(audio_in, (Len(years_in) * 10) \div rate_in)]
    /\ UNCHANGED <<env_vars, out_dir, fs, job_vars, years_in, rate_in, audio_in, image_in, pipe>>

\* generate_year_overlay_filter on the capture years.
ApplyOverlay ==
    /\ "overlay" \notin pure_pc
    /\ pure_pc' = pure_pc \cup {"overlay"}
    /\ pure_out' = [pure_out EXCEPT !.overlay = YearOverlay(years_in)]
    /\ UNCHANGED <<env_vars, out_dir, fs, job_vars, years_in, rate_in, audio_in, image_in, pipe>>

\* get_image_creation_date on one image.
ApplyResolve ==
    /\ "resolve" \notin pure_pc
    /\ pure_pc' = pure_pc \cup {"resolve"}
    /\ pure_out' = [pure_out EXCEPT !.resolve = get_image_creation_date(image_in)]
    /\ UNCHANGED <<env_vars, out_dir, fs, job_vars, years_in, rate_in, audio_in, image_in, pipe>>

NextPure == ApplyTrim \/ ApplyOverlay \/ ApplyResolve

SpecPure == InitPure /\ [][NextPure]_vars

\* ------------------------------------- one encoder process and its read loop
Scripts == UNION {[1..n -> {"stdout", "stderr"}] : n \in 0..MaxWrites}

InitPipe ==
    /\ pipe \in {Popen(script) : script \in Scripts}
    /\ years_in = <<>>
    /\ rate_in = 1
    /\ audio_in = 0
    /\ image_in = CHOOSE f \in ImageFiles : f.name = "a.png"
    /\ pure_pc = {}
    /\ pure_out = NoPure
    /\ image_dir_exists = TRUE
    /\ dir_files = {}
    /\ audio_exists = TRUE
    /\ audio_duration = 0
    /\ out_dir = [d \in OutDirs |-> "present"]
    /\ InitJobs

pipe_rest == <<env_vars, out_dir, fs, job_vars, years_in, rate_in, audio_in,
               image_in, pure_pc, pure_out>>

\* The encoder writes its next chunk or line; a write blocks while the pipe
\* it goes to is full.
EncoderWrite ==
    /\ ~pipe.exited
    /\ pipe.pos <= Len(pipe.script)
    /\ IF pipe.script[pipe.pos] = "stdout"
       THEN /\ pipe.out_buf < PipeCapacity
            /\ pipe' = [pipe EXCEPT !.out_buf = @ + 1, !.pos = @ + 1]
       ELSE /\ Len(pipe.err_buf) < PipeCapacity
            /\ pipe' = [pipe EXCEPT !.err_buf = Append(@, pipe.pos), !.pos = @ + 1]
    /\ UNCHANGED pipe_rest

\* The encoder has written everything and exits, closing its pipes.
EncoderExit ==
    /\ ~pipe.exited
    /\ pipe.pos > Len(pipe.script)
    /\ pipe' = [pipe EXCEPT !.exited = TRUE]
    /\ UNCHANGED pipe_rest

\* line = process.stderr.readline() returns a line; print(line.strip()).
\* Nothing reads process.stdout.
ReadLine ==
    /\ pipe.loop = "reading"
    /\ pipe.err_buf # <<>>
    /\ pipe' = [pipe EXCEPT !.printed = Append(@, Head(pipe.err_buf)),
                            !.err_buf = Tail(@)]
    /\ UNCHANGED pipe_rest

\* readline returns '' at end of file and process.poll() is not None: break,
\* then process.wait().
LoopBreak ==
    /\ pipe.loop = "reading"
    /\ pipe.err_buf = <<>>
    /\ pipe.exited
    /\ pipe' = [pipe EXCEPT !.loop = "done"]
    /\ UNCHANGED pipe_rest

NextPipe == EncoderWrite \/ EncoderExit \/ ReadLine \/ LoopBreak

SpecPipe == InitPipe /\ [][NextPipe]_vars

TypeOK ==
    /\ caller \in [Jobs -> {"idle", "makedirs", "except", "start", "started", "returned"}]
    /\ thread \in [Jobs -> {"none", "create_file_list", "plan", "trim_wait",
                            "assembly_wait", "mux_wait", "done", "raised"}]
    /\ \A j \in Jobs : running[j] \subseteq StageNames

\* ------------------------------------------------------------------ claims
TempArtifacts(j) ==
    {NamedTemporaryFile(j), TempAudio(output_video[j]), TempOutput(output_video[j])}

\* C1: in every terminal state of run_ffmpeg, however it ended, none of the
\* temporary artifacts the job created (manifest, temp_audio.mp3,
\* temp_output.mp4) still exists.
C1_TempArtifactsRemoved ==
    \A j \in Jobs :
        thread[j] \in Terminal => \A p \in TempArtifacts(j) : fs[p].by # j

\* C2: once an encoder stage of a job has exited non-zero, no later stage of
\* that job is started (no stage follows a failed one in the start order).
C2_NoStageAfterFailure ==
    \A j \in Jobs :
        \A k \in 2..Len(started[j]) : exit_status[j][started[j][k - 1]] # "fail"

DistinctOutputs ==
    /\ \A j \in Jobs : caller[j] # "idle"
    /\ output_video[1] # output_video[2]

Acting(j) == <<caller[j], thread[j], running[j]>>' # <<caller[j], thread[j], running[j]>>

\* C3: two concurrent jobs with distinct output paths never interfere: the
\* temporary files a job's mux stage reads were written by that job, and an
\* existing temporary artifact is overwritten or deleted only by the job that
\* wrote it.
C3_NoInterference ==
    [][DistinctOutputs' =>
         /\ \A j \in Jobs : mux_read'[j].video.by \in {0, j} /\ mux_read'[j].audio.by \in {0, j}
         /\ \A p \in Paths :
              (exists(fs[p]) /\ fs'[p] # fs[p]) => \E j \in Jobs : fs[p].by = j /\ Acting(j)]_vars

StageOrder == <<"trim", "assembly", "mux">>

\* C4: within one job the stages are started in the order trim, assembly,
\* mux, each only after the previous stage's process has exited, so at most
\* one encoder process of the job is running at any time.
C4_StagesSequential ==
    \A j \in Jobs :
        /\ Len(started[j]) <= 3
        /\ started[j] = SubSeq(StageOrder, 1, Len(started[j]))
        /\ \A k \in 2..Len(started[j]) :
              /\ started[j][k - 1] \notin running[j]
              /\ exit_status[j][started[j][k - 1]] # "none"
        /\ Cardinality(running[j]) <= 1

C4_Witness ==
    \E j \in Jobs : started[j] = StageOrder /\ running[j] = {"mux"}

\* C5: when the image directory or the audio file is missing, compile_video
\* fails synchronously with "" and launches no thread, starts no encoder
\* process and creates no output directory; a directory is created only
\* after both checks passed.
C5_MissingInputFailsFast ==
    \A j \in Jobs :
        /\ (caller[j] # "idle" /\ ~(image_dir_exists /\ audio_exists)) =>
              /\ caller[j] \in {"except", "returned"}
              /\ caller[j] = "returned" => retval[j] = ""
              /\ thread[j] = "none"
              /\ started[j] = <<>>
              /\ made_dirs[j] = {}
        /\ made_dirs[j] # {} => image_dir_exists /\ audio_exists

C5_Witness ==
    \E j \in Jobs :
        /\ caller[j] = "returned"
        /\ retval[j] = ""
        /\ ~(image_dir_exists /\ audio_exists)
        /\ out_dir[dirname(output_video[j])] = "absent"

\* Inputs that pass validation and whose output directory exists or can be
\* created.
ValidInputs(j) ==
    /\ image_dir_exists
    /\ audio_exists
    /\ out_dir[dirname(output_video[j])] # "blocked"

\* C6: on valid inputs compile_video returns the intended output path
\* without waiting for the pipeline: once the thread is started the return
\* is enabled whatever the thread's progress, and the value returned is the
\* output path whether the pipeline later succeeds or fails.
C6_ReturnsWithoutWaiting ==
    \A j \in Jobs :
        /\ caller[j] = "started" => ENABLED Return(j)
        /\ (caller[j] = "returned" /\ ValidInputs(j)) => retval[j] = output_video[j]

C6_Witness ==
    \E j \in Jobs :
        /\ caller[j] = "returned"
        /\ retval[j] = output_video[j]
        /\ thread[j] = "create_file_list"
        /\ started[j] = <<>>

\* C7: for every timeline of n >= 1 frames the year segments are ordered and
\* non-overlapping, every frame index in [0, n) is enabled by exactly one
\* segment (between is inclusive at both ends), and the last segment is
\* open-ended.
C7_SegmentsCoverOnce ==
    "overlay" \in pure_pc =>
        LET segs == pure_out.overlay
            n == Len(years_in)
        IN /\ Len(segs) >= 1
           /\ segs[Len(segs)].kind = "gte"
           /\ \A k \in 1..(Len(segs) - 1) : segs[k].kind = "between" /\ segs[k].a < segs[k + 1].a
           /\ \A f \in 0..(n - 1) :
                 Cardinality({k \in 1..Len(segs) : SegmentEnabled(segs[k], f)}) = 1

\* C8: the -ss start offset of the trim stage is never negative, and it is
\* exactly 0 whenever the audio is shorter than the video's total duration
\* (frame time plus hold).  (The code keeps no record of a shortfall; the
\* offset alone is stated here.)
C8_StartOffsetNonNegative ==
    "trim" \in pure_pc =>
        /\ pure_out.trim.ss >= 0
        /\ audio_in < pure_out.trim.t => pure_out.trim.ss = 0

\* C9: a job over a directory with no matching image writes no manifest,
\* leaves none behind and starts no encoder stage.
C9_EmptyInputFailsFast ==
    \A j \in Jobs :
        listdir_png(dir_files) = {} =>
            /\ ~exists(fs[NamedTemporaryFile(j)])
            /\ started[j] = <<>>

\* C10: in every terminal state of a job a file exists at the output path
\* only if all three stages exited successfully.
C10_OutputOnlyOnSuccess ==
    \A j \in Jobs :
        (thread[j] \in Terminal /\ exists(fs[output_video[j]])) =>
            \A st \in StageNames : exit_status[j][st] = "ok"

\* C11: for an image whose capture date is absent or does not parse,
\* get_image_creation_date raises nothing and returns the file's
\* modification time.
C11_BadDateFallsBack ==
    ("resolve" \in pure_pc /\ image_in.exif \in {"absent", "bad"}) =>
        /\ ~pure_out.resolve.raised
        /\ pure_out.resolve.date = image_in.mtime

FileNamed(name) == CHOOSE f \in ImageFiles : f.name = name
DateOf(name) == get_image_creation_date(FileNamed(name)).date

RECURSIVE SumDurations(_)
SumDurations(entries) ==
    IF entries = <<>> THEN 0
    ELSE entries[1].duration + SumDurations(Tail(entries))

\* A manifest that create_file_list wrote completely, with at least a frame.
CompleteManifest(j) ==
    /\ fs[NamedTemporaryFile(j)].state = "complete"
    /\ fs[NamedTemporaryFile(j)].data # <<>>

\* C12: a manifest written by create_file_list over n >= 1 images has one
\* entry per image, in capture-date order, the first n-1 with duration
\* 1/framerate and the last with the 5 s hold, so the durations sum to
\* (n-1) * (1/framerate) + 5.
C12_ManifestDurations ==
    \A j \in Jobs :
        CompleteManifest(j) =>
            LET entries == fs[NamedTemporaryFile(j)].data
                n == Len(entries)
                time_per_frame == 10 \div framerate[j]
            IN /\ n = Cardinality(listdir_png(dir_files))
               /\ {entries[i].file : i \in 1..n} = Names(listdir_png(dir_files))
               /\ \A i \in 1..(n - 1) :
                     /\ entries[i].duration = time_per_frame
                     /\ DateOf(entries[i].file) <= DateOf(entries[i + 1].file)
               /\ entries[n].duration = HoldDuration
               /\ SumDurations(entries) = (n - 1) * time_per_frame + HoldDuration

C12_Witness ==
    \E j \in Jobs :
        /\ CompleteManifest(j)
        /\ Len(fs[NamedTemporaryFile(j)].data) >= 3
        /\ framerate[j] = 2

ManifestNames(j) ==
    LET entries == fs[NamedTemporaryFile(j)].data
    IN {entries[i].file : i \in 1..Len(entries)}

\* C13: the frames of the manifest, the frames counted for the video length
\* and the frames whose years drive the overlay are one and the same set of
\* images, whatever the directory holds and however it changes during the
\* job.
C13_OneFrozenImageSet ==
    \A j \in Jobs :
        (thread[j] \in {"assembly_wait", "mux_wait"}
           /\ fs[NamedTemporaryFile(j)].state = "complete") =>
            /\ ManifestNames(j) = listed[j].length
            /\ listed[j].length = listed[j].overlay

\* The year texts the overlay program enables at frame n.
YearsShown(segs, n) == {segs[k].year : k \in {m \in 1..Len(segs) : SegmentEnabled(segs[m], n)}}

\* C14: at every frame index i of the manifest the overlay enables exactly
\* one year text, the capture year of the i-th image of the date-sorted
\* manifest.
C14_OverlayMatchesManifest ==
    \A j \in Jobs :
        (thread[j] \in {"assembly_wait", "mux_wait"}
           /\ fs[NamedTemporaryFile(j)].state = "complete") =>
            LET entries == fs[NamedTemporaryFile(j)].data
            IN \A i \in 0..(Len(entries) - 1) :
                  YearsShown(year_overlay[j], i) = {year(DateOf(entries[i + 1].file))}

\* C15: when the audio is at least as long as the video plus hold, the trim
\* window starts at floor(A - (V + hold)) - lead-in, clamped at 0, and lasts
\* V + hold.
C15_TrimWindow ==
    LET total == (Len(years_in) * 10) \div rate_in + HoldDuration
    IN ("trim" \in pure_pc /\ audio_in >= total) =>
          /\ pure_out.trim.ss = Max(0, ((audio_in - total) \div 10) * 10 - LeadIn)
          /\ pure_out.trim.t = total

\* C16: the trim window is at least as long as the manifest's total display
\* time, and lies inside the audio whenever the audio is at least as long as
\* the window.
C16_WindowCoversManifest ==
    \A j \in Jobs :
        (thread[j] \in {"trim_wait", "assembly_wait", "mux_wait"}
           /\ fs[NamedTemporaryFile(j)].state = "complete") =>
            /\ trim_command[j].t >= SumDurations(fs[NamedTemporaryFile(j)].data)
            /\ audio_duration >= trim_command[j].t =>
                  trim_command[j].ss + trim_command[j].t <= audio_duration

SameYear == \A i \in 1..Len(years_in) : years_in[i] = years_in[1]

\* C17: a timeline whose frames share one capture year gets exactly one
\* directive, open-ended from index 0 (gte(n,0)), and no between segment.
C17_SingleYearOneSegment ==
    ("overlay" \in pure_pc /\ SameYear) =>
        /\ Len(pure_out.overlay) = 1
        /\ pure_out.overlay[1].kind = "gte"
        /\ pure_out.overlay[1].a = 0
        /\ pure_out.overlay[1].year = years_in[1]

C17_Witness ==
    /\ "overlay" \in pure_pc
    /\ SameYear
    /\ Len(years_in) >= 2

\* The stderr lines of the script, in emission order.
StderrLines(script) == SelectSeq([i \in 1..Len(script) |-> i], LAMBDA i : script[i] = "stderr")

\* C18: for an encoder that writes a finite amount to stdout and stderr and
\* exits when it is not blocked on a full pipe, the read loop is never stuck
\* (while it has not ended, the parent or the encoder can take a step) and
\* it ends with every stderr line printed, in emission order.
C18_ReadLoopTerminates ==
    /\ pipe.loop = "reading" => ENABLED NextPipe
    /\ pipe.loop = "done" => pipe.printed = StderrLines(pipe.script)

\* create_file_list has returned after an exception: no manifest, or a
\* partial one.
ManifestFailed(j) ==
    /\ thread[j] \notin {"none", "create_file_list"}
    /\ \/ list_filename[j] = None
       \/ fs[NamedTemporaryFile(j)].state = "partial"

\* C19: the assembly stage runs only on a manifest create_file_list wrote
\* completely, and once building the manifest has failed no encoder stage
\* (trim, assembly, mux) of the job is started.
C19_ManifestFailureAborts ==
    \A j \in Jobs :
        /\ "assembly" \in running[j] => fs[NamedTemporaryFile(j)].state = "complete"
        /\ ManifestFailed(j) => started[j] = <<>>

====
